---- MODULE Spec2Model ----
(***************************************************************************)
(* Model of execute_model (src/src/main.rs): a drift-diffusion replicator. *)
(* num_reps independent trials run in parallel; each trial is a bounded    *)
(* random walk that stops at the first step at which the magnitude of the  *)
(* accumulator strictly exceeds criterion, or is dropped after max_samples *)
(* steps.  f64 values are modelled by integers (exact addition and         *)
(* comparison; NaN and infinities are outside the model), and a draw from  *)
(* Normal(drift, sdrw) by drift + z * sdrw for a standard score z taken    *)
(* from the finite set Noise.  The per-trial trace allocation              *)
(* Vec::with_capacity(max_samples) is assumed to succeed.                  *)
(***************************************************************************)
EXTENDS Integers, Sequences, FiniteSets

\* ---------------------------------------------------------------- bounds
MaxReps == 2
MaxSamples == 3

\* ------------------------------------------------------ input value sets
DriftValues == {0, 1}
SdrwValues == {0, 1}
CriterionValues == {0 - 1, 0, 1, 2}
Noise == {0 - 1, 1}

VARIABLES num_reps, max_samples, drift, sdrw, criterion,
          pc, tpc, acc, evidence, latency, drawn, out, stderr, results, ret

params == <<num_reps, max_samples, drift, sdrw, criterion>>
vars == <<num_reps, max_samples, drift, sdrw, criterion,
          pc, tpc, acc, evidence, latency, drawn, out, stderr, results, ret>>

Trials == 0 .. (num_reps - 1)

\* ------------------------------------------------------- pure operators
\* f64::abs
Abs(x) == IF x < 0 THEN 0 - x ELSE x

\* distrib.random(): one draw of Normal(mean, sd) with standard score z
Sample(mean, sd, z) == mean + z * sd

\* acc = acc + v
AccumulateReplace(a, v) == v
Accumulate(a, v) == a + v

\* if acc.abs() > criterion
CrossedNonStrict(a, c) == Abs(a) >= c
Crossed(a, c) == Abs(a) > c

\* f64::is_sign_positive: true for every value whose sign bit is clear,
\* +0.0 included.  The accumulator starts at +0.0 and a sum that cancels
\* rounds to +0.0, so a zero accumulator is always +0.0.
IsSignPositive(a) == a >= 0

\* ModelResult { latency, response, evidence }
ModelResultOneBased(lat, resp, ev) ==
    [latency |-> lat + 1, response |-> resp, evidence |-> ev]
ModelResult(lat, resp, ev) ==
    [latency |-> lat, response |-> resp, evidence |-> ev]

\* Vec::with_capacity(max_samples): an empty vector
NewEvidenceZeroed(m) == [k \in 1 .. m |-> 0]
NewEvidence(m) == <<>>

\* for latency in 0..max_samples: is there a next iteration
InRangeInclusive(lat, m) == lat <= m
InRange(lat, m) == lat < m

\* the accumulator a step of trial i reads: a local of the closure
AccOfShared(a, i) == a[0]
AccOf(a, i) == a[i]

\* Option<ModelResult> as a sequence of length 0 (None) or 1 (Some)
None == <<>>
Some(r) == <<r>>

\* filter_map(..).collect(): the Some values, in index order
RECURSIVE CollectKeepAll(_, _)
CollectKeepAll(o, n) ==
    IF n = 0 THEN <<>>
    ELSE CollectKeepAll(o, n - 1) \o
         (IF o[n - 1] = None
          THEN <<ModelResult(0, FALSE, <<>>)>> ELSE o[n - 1])
RECURSIVE Collect(_, _)
Collect(o, n) ==
    IF n = 0 THEN <<>> ELSE Collect(o, n - 1) \o o[n - 1]

\* Ok(results)
ReturnErrOnNone(o) == IF \E i \in DOMAIN o : o[i] = None THEN "Err" ELSE "Ok"
Return(o) == "Ok"

\* ------------------------------------------------------------------ Init
Init ==
    /\ num_reps \in 0 .. MaxReps
    /\ max_samples \in 0 .. MaxSamples
    /\ drift \in DriftValues
    /\ sdrw \in SdrwValues
    /\ criterion \in CriterionValues
    /\ pc = "start"
    /\ tpc = [i \in Trials |-> "ready"]
    /\ acc = [i \in Trials |-> 0]
    /\ evidence = [i \in Trials |-> <<>>]
    /\ latency = [i \in Trials |-> 0]
    /\ drawn = [i \in Trials |-> <<>>]
    /\ out = [i \in Trials |-> None]
    /\ stderr = 0
    /\ results = <<>>
    /\ ret = "none"

\* --------------------------------------------------------------- actions
\* Normal::new(drift, sdrw).  The constructor belongs to the mathru crate;
\* for a non-positive sdrw it may reject the parameter by panicking or
\* hand back a degenerate distribution, and both outcomes are kept.
NewDistrib ==
    /\ pc = "start"
    /\ \/ pc' = "par"
       \/ sdrw <= 0 /\ pc' = "panicked"
    /\ UNCHANGED <<params, tpc, acc, evidence, latency, drawn, out, stderr,
                   results, ret>>

\* closure entry: let mut acc = 0.0; let mut evidence = Vec::with_capacity(..)
StartTrial(i) ==
    /\ pc = "par"
    /\ tpc[i] = "ready"
    /\ acc' = [acc EXCEPT ![i] = 0]
    /\ evidence' = [evidence EXCEPT ![i] = NewEvidence(max_samples)]
    /\ latency' = [latency EXCEPT ![i] = 0]
    /\ tpc' = [tpc EXCEPT ![i] = "loop"]
    /\ UNCHANGED <<params, pc, drawn, out, stderr, results, ret>>

\* one iteration of the for loop
Step(i) ==
    /\ pc = "par"
    /\ tpc[i] = "loop"
    /\ InRange(latency[i], max_samples)
    /\ \E z \in Noise :
         LET v == Sample(drift, sdrw, z)
             a == Accumulate(AccOf(acc, i), v)
             ev == Append(evidence[i], a)
         IN  /\ drawn' = [drawn EXCEPT ![i] = Append(@, v)]
             /\ acc' = [acc EXCEPT ![i] = a]
             /\ evidence' = [evidence EXCEPT ![i] = ev]
             /\ IF Crossed(a, criterion)
                THEN /\ out' = [out EXCEPT ![i] =
                            Some(ModelResult(latency[i], IsSignPositive(a), ev))]
                     /\ tpc' = [tpc EXCEPT ![i] = "some"]
                     /\ UNCHANGED latency
                ELSE /\ latency' = [latency EXCEPT ![i] = @ + 1]
                     /\ UNCHANGED <<out, tpc>>
    /\ UNCHANGED <<params, pc, stderr, results, ret>>

\* the loop ran out: eprintln!(..); None
Exhaust(i) ==
    /\ pc = "par"
    /\ tpc[i] = "loop"
    /\ ~InRange(latency[i], max_samples)
    /\ stderr' = stderr + 1
    /\ out' = [out EXCEPT ![i] = None]
    /\ tpc' = [tpc EXCEPT ![i] = "none"]
    /\ UNCHANGED <<params, pc, acc, evidence, latency, drawn, results, ret>>

\* .collect(); Ok(results)
Finish ==
    /\ pc = "par"
    /\ \A i \in Trials : tpc[i] \in {"some", "none"}
    /\ results' = Collect(out, num_reps)
    /\ ret' = Return(out)
    /\ pc' = "done"
    /\ UNCHANGED <<params, tpc, acc, evidence, latency, drawn, out, stderr>>

Next ==
    \/ NewDistrib
    \/ \E i \in Trials : StartTrial(i)
    \/ \E i \in Trials : Step(i)
    \/ \E i \in Trials : Exhaust(i)
    \/ Finish

Spec == Init /\ [][Next]_vars

\* rayon runs every task of the parallel iterator to completion and the
\* calling thread then collects
FairSpec ==
    /\ Spec
    /\ \A i \in 0 .. MaxReps :
         /\ WF_vars(i \in Trials /\ StartTrial(i))
         /\ WF_vars(i \in Trials /\ Step(i))
         /\ WF_vars(i \in Trials /\ Exhaust(i))
    /\ WF_vars(NewDistrib)
    /\ WF_vars(Finish)

\* ---------------------------------------------------- sequential reference
\* The closure body run alone on a given sequence of draws (tape) with a
\* budget of m steps: the Option<ModelResult> it evaluates to.
RECURSIVE Walk(_, _, _, _, _, _)
Walk(tape, m, c, lat, a, ev) ==
    IF ~InRange(lat, m) \/ lat >= Len(tape) THEN None
    ELSE LET a2 == Accumulate(a, tape[lat + 1])
             ev2 == Append(ev, a2)
         IN  IF Crossed(a2, c)
             THEN Some(ModelResult(lat, IsSignPositive(a2), ev2))
             ELSE Walk(tape, m, c, lat + 1, a2, ev2)

RunTrial(tape, m, c) == Walk(tape, m, c, 0, 0, NewEvidence(m))

\* ------------------------------------------------------------- vocabulary
Range(s) == {s[k] : k \in DOMAIN s}

\* the sequence res holds, as a multiset, exactly the Some values of f
SameOutcomes(res, f) ==
    /\ \A k \in DOMAIN res :
           Cardinality({j \in DOMAIN res : res[j] = res[k]}) =
               Cardinality({i \in DOMAIN f : f[i] = Some(res[k])})
    /\ \A i \in DOMAIN f :
           f[i] # None => \E k \in DOMAIN res : res[k] = f[i][1]

RECURSIVE SumLen(_, _)
SumLen(f, n) == IF n = 0 THEN 0 ELSE SumLen(f, n - 1) + Len(f[n - 1])

ValidParams == sdrw > 0 /\ criterion > 0
Crossing == {i \in Trials : tpc[i] = "some"}
Abandoned == {i \in Trials : tpc[i] = "none"}
Private(i) == <<tpc[i], acc[i], evidence[i], latency[i], drawn[i], out[i]>>
IsPrefix(s, t) == Len(s) <= Len(t) /\ \A k \in 1 .. Len(s) : s[k] = t[k]
CrossValue(r) == r.evidence[r.latency + 1]

\* ----------------------------------------------------------------- claims

\* C1: with valid parameters every returned outcome has
\* abs(evidence[latency]) > criterion, and abs(evidence[j]) <= criterion for
\* every index j < latency (latency is the first crossing step).
C1_FirstCrossing ==
    ValidParams =>
        \A k \in DOMAIN results :
            LET r == results[k]
            IN  /\ r.latency + 1 \in DOMAIN r.evidence
                /\ Abs(r.evidence[r.latency + 1]) > criterion
                /\ \A j \in 0 .. (r.latency - 1) :
                       Abs(r.evidence[j + 1]) <= criterion

C1_Witness ==
    /\ pc = "done"
    /\ ValidParams
    /\ \E k \in DOMAIN results :
           /\ results[k].latency >= 2
           /\ results[k].evidence[1] # 0

\* C2: whenever sdrw <= 0 or criterion <= 0 the call fails with a
\* configuration error before any sample is drawn and with no diagnostic
\* message: no trial runs and no result is returned.
C2_ConfigErrorBeforeSampling ==
    (sdrw <= 0 \/ criterion <= 0) =>
        /\ \A i \in Trials : drawn[i] = <<>> /\ tpc[i] = "ready"
        /\ stderr = 0
        /\ pc # "panicked"
        /\ ret # "Ok"
        /\ results = <<>>

\* C3: the number of returned outcomes is num_reps minus the number of
\* abandoned trials, hence within 0..num_reps; an abandoned trial
\* contributes no entry and each crossing trial contributes exactly one.
C3_ResultCount ==
    pc = "done" =>
        /\ Len(results) = num_reps - Cardinality(Abandoned)
        /\ Len(results) \in 0 .. num_reps
        /\ stderr = Cardinality(Abandoned)
        /\ \A i \in Abandoned : out[i] = None
        /\ \A i \in Crossing : out[i] # None
        /\ SameOutcomes(results, out)

C3_Witness ==
    /\ pc = "done"
    /\ num_reps = 2
    /\ Cardinality(Abandoned) = 1
    /\ Len(results) = 1

\* C4: for every returned outcome response is true iff evidence[latency] > 0
\* and false iff evidence[latency] < 0; the crossing value is never zero.
C4_ResponseSign ==
    \A k \in DOMAIN results :
        LET r == results[k]
        IN  /\ r.response <=> CrossValue(r) > 0
            /\ ~r.response <=> CrossValue(r) < 0
            /\ CrossValue(r) # 0

\* C5: every returned outcome's evidence has length latency + 1, and a trial
\* that crossed takes no further step: nothing more is drawn or appended.
C5_TraceLength ==
    /\ \A k \in DOMAIN results :
           Len(results[k].evidence) = results[k].latency + 1
    /\ \A i \in Crossing :
           /\ Len(out[i][1].evidence) = out[i][1].latency + 1
           /\ Len(drawn[i]) = out[i][1].latency + 1
           /\ evidence[i] = out[i][1].evidence

C5_Witness ==
    /\ pc = "done"
    /\ \E k \in DOMAIN results :
           results[k].latency = 1 /\ Len(results[k].evidence) = 2
    /\ \E i \in Crossing : out[i][1].latency + 1 < max_samples

\* C6: with valid configuration the call returns Ok however many trials are
\* abandoned, also when all of them are; abandonment is never an error and
\* never stops the call.
C6_OkDespiteAbandoned ==
    ValidParams =>
        /\ pc # "panicked"
        /\ ret \in {"none", "Ok"}
        /\ (pc = "done" => ret = "Ok")
        /\ (pc = "par" /\ Abandoned # {} =>
                \/ \E i \in Trials : ENABLED StartTrial(i)
                \/ \E i \in Trials : ENABLED Step(i)
                \/ \E i \in Trials : ENABLED Exhaust(i)
                \/ ENABLED Finish)

C6_Witness ==
    /\ pc = "done"
    /\ ValidParams
    /\ num_reps = 2
    /\ Abandoned = Trials
    /\ ret = "Ok"
    /\ results = <<>>

\* C7: for a fixed sequence of increments per trial, a trial that crosses
\* within a budget m1 <= max_samples crosses within max_samples with the same
\* latency, response and evidence, so the number of returned outcomes does
\* not decrease as max_samples grows.
C7_MonotoneInBudget ==
    pc = "done" =>
        \A m1 \in 0 .. max_samples :
            LET under(i) == RunTrial(drawn[i], m1, criterion)
                crossed1 == {i \in Trials : under(i) # None}
            IN  /\ \A i \in crossed1 :
                       /\ out[i] = under(i)
                       /\ under(i)[1] \in Range(results)
                /\ Cardinality(crossed1) <= Len(results)

C7_Witness ==
    /\ pc = "done"
    /\ max_samples = 3
    /\ num_reps = 2
    /\ Len(results) = 2
    /\ Cardinality({i \in Trials :
           RunTrial(drawn[i], 1, criterion) # None}) = 1

C9_CumulativeSum ==
    /\ [](\A i \in Trials :
            /\ tpc[i] = "loop" /\ latency[i] = 0 => acc[i] = 0
            /\ tpc[i] = "loop" => Len(evidence[i]) = latency[i]
            /\ tpc[i] = "some" => Len(evidence[i]) = latency[i] + 1
            /\ tpc[i] # "ready" =>
                 /\ Len(evidence[i]) = Len(drawn[i])
                 /\ \A k \in DOMAIN evidence[i] :
                        evidence[i][k] =
                            IF k = 1 THEN drawn[i][1]
                            ELSE evidence[i][k - 1] + drawn[i][k]
                 /\ evidence[i] # <<>> =>
                        acc[i] = evidence[i][Len(evidence[i])])
    /\ [][\A i \in Trials :
            tpc[i] # "ready" => IsPrefix(evidence[i], evidence'[i])]_vars

C9_Witness ==
    \E i \in Trials :
        /\ Len(evidence[i]) = 3
        /\ drawn[i][2] # 0
        /\ drawn[i][3] # 0
        /\ evidence[i][3] # drawn[i][3]

\* C10: trials share no mutable state: a step changes the accumulator and
\* trace of one trial only, and under every interleaving the returned
\* outcomes are, as a multiset, those of each trial run alone on its own
\* increments.
C10_Independent ==
    /\ [](pc = "done" =>
            SameOutcomes(results, [i \in Trials |->
                RunTrial(drawn[i], max_samples, criterion)]))
    /\ [](\A i \in Trials :
            tpc[i] \in {"some", "none"} =>
                out[i] = RunTrial(drawn[i], max_samples, criterion))
    /\ [][\A i, j \in Trials :
            i # j /\ Private(i)' # Private(i) => Private(j)' = Private(j)]_vars

C10_Witness ==
    /\ pc = "done"
    /\ num_reps = 2
    /\ Len(results) = 2
    /\ results[1].latency = 2
    /\ results[1].response
    /\ ~results[2].response
====
